---- MODULE Spec2Model ----
(***************************************************************************)
(* PyGnuplot: the class gp drives a gnuplot child process over its three   *)
(* pipes.  Three threads run: the caller (methods c, r, a, flush_all,      *)
(* quit, plot) and the two enqueue_std reader threads.  The child process  *)
(* is the fourth party; it executes the lines written to its stdin in      *)
(* order.                                                                  *)
(*                                                                         *)
(* A line of text is a record [k, tag, id]: k is what the text looks like  *)
(* to the code (the regular expressions of a() and the comparison of c()   *)
(* only tell these kinds apart), tag is the number in a                    *)
(* COMMAND_SEQUENCE_ENDED-<n> line (0 elsewhere), and id is the ordinal of *)
(* the c() call whose text made the engine write the line.  The code never *)
(* reads id.                                                               *)
(***************************************************************************)
EXTENDS Integers, Sequences, FiniteSets, TLC

\* number of c() calls after which no c(), a() or plot() is called; a plot()
\* that has begun makes its second c() call whatever the count
MaxSends == 2
\* largest value time_ns() returns
MaxClock == 2
\* number of r(), flush_all() and quit() calls a behaviour may make
MaxCalls == 2

VARIABLES
    alive,       \* self.p: the child process is running
    stdin,       \* texts written to p.stdin the engine has not executed yet
    pipe_out,    \* lines the engine wrote to stdout, not yet read by t_out
    pipe_err,    \* lines the engine wrote to stderr, not yet read by t_err
    inData,      \* the engine reads its stdin as the data of a plot "-"
    t_out,       \* thread t_out: "running" or "closed"
    t_err,       \* thread t_err: "running" or "closed"
    q_out,       \* self.q_out
    q_err,       \* self.q_err
    outIndex,    \* self.outIndex
    clock,       \* the value time_ns() returned last, 0 before the first
    nsent,       \* number of c() calls made so far
    ncalls,      \* number of r(), flush_all() and quit() calls made so far
    pc,          \* the caller's position
    stack,       \* what the caller does when the running c() or r() returns
    lines,       \* local `lines` of the running r()
    rstderr,     \* argument `stderr` of the running r()
    timestamp,   \* local `timestamp` of the running c()
    startIndex,  \* local `startIndex` of the running a()
    errIdx,      \* local `i` of the running a() once the caret matched
    errMsg,      \* local `cleanErrorLines` of the running a()
    call,        \* the public method the caller is in, with its arguments
    ret          \* outcome of the last public method that finished

vars == <<alive, stdin, pipe_out, pipe_err, inData, t_out, t_err, q_out, q_err,
          outIndex, clock, nsent, ncalls, pc, stack, lines, rstderr,
          timestamp, startIndex, errIdx, errMsg, call, ret>>

engineVars == <<alive, stdin, pipe_out, pipe_err, inData>>
callerVars == <<outIndex, clock, nsent, ncalls, pc, stack, lines, rstderr,
                timestamp, startIndex, errIdx, errMsg, call, ret>>

\* The command texts a caller passes: 'print 1+1', 'print undefined_name',
\* 'set xrange [0:1]' and 'exit'.
Cmds == {"print", "undef", "set", "exit"}

Line(k, tag, id) == [k |-> k, tag |-> tag, id |-> id]

Last(s) == s[Len(s)]

----------------------------------------------------------------------------
(* The engine *)

\* stderr text of an engine error: the echoed command, the caret line, the
\* diagnostic message
ErrOutput(id) ==
    <<Line("echo", 0, id), Line("caret", 0, id), Line("msg", 0, id)>>

\* the text c() writes for one call: the commands, 'set print "-"' and
\* 'print "COMMAND_SEQUENCE_ENDED-<timestamp>"'
Framed(cmd, ts, id) == [c |-> cmd, tag |-> ts, id |-> id]

\* what the engine prints on stdout for the text of one c() call: print goes
\* to stdout since the 'set print "-"' of the call before, and the sentinel
\* follows the 'set print "-"' of this call
OutOutput(e) ==
    (IF e.c = "print" THEN <<Line("ans", 0, e.id)>> ELSE <<>>)
        \o <<Line("sentinel", e.tag, e.id)>>

\* the engine executes the text of the next c() call.  'exit' ends the
\* process before the lines that follow it are read.  After 'plot "-" ...'
\* the engine reads every line that follows as data, up to a line 'e': the
\* rest of the text of the plot command, and the texts of later calls; in
\* the text str_data + 'e' the data ends, and the 'set print "-"' and the
\* sentinel print that follow the 'e' are executed.  A data block that
\* arrives when no plot "-" is waiting for it is not a command.
EngineStep ==
    /\ alive
    /\ stdin # <<>>
    /\ LET e == Head(stdin) IN
       IF inData
       THEN /\ stdin' = Tail(stdin)
            /\ inData' = (e.c # "data")
            /\ pipe_out' = pipe_out \o
                  (IF e.c = "data" THEN <<Line("sentinel", e.tag, e.id)>> ELSE <<>>)
            /\ UNCHANGED <<alive, pipe_err>>
       ELSE IF e.c = "exit"
       THEN /\ alive' = FALSE
            /\ stdin' = <<>>
            /\ UNCHANGED <<pipe_out, pipe_err, inData>>
       ELSE IF e.c = "plot"
       THEN /\ stdin' = Tail(stdin)
            /\ inData' = TRUE
            /\ UNCHANGED <<alive, pipe_out, pipe_err>>
       ELSE /\ stdin' = Tail(stdin)
            /\ pipe_out' = pipe_out \o OutOutput(e)
            /\ pipe_err' = pipe_err \o
                  (IF e.c \in {"undef", "data"} THEN ErrOutput(e.id) ELSE <<>>)
            /\ UNCHANGED <<alive, inData>>
    /\ UNCHANGED <<t_out, t_err, q_out, q_err>>
    /\ UNCHANGED callerVars

----------------------------------------------------------------------------
(* enqueue_std, one thread per stream *)

\* t_out puts the line at the head of the queue, as a LifoQueue would hand
\* it out
EnqueueOutAtHead ==
    /\ t_out = "running"
    /\ pipe_out # <<>>
    /\ q_out' = <<Head(pipe_out)>> \o q_out
    /\ pipe_out' = Tail(pipe_out)
    /\ UNCHANGED <<alive, stdin, pipe_err, inData, t_out, t_err, q_err>>
    /\ UNCHANGED callerVars

\* t_out: one iteration of `for line in iter(out.readline, '')`
EnqueueOut ==
    /\ t_out = "running"
    /\ pipe_out # <<>>
    /\ q_out' = Append(q_out, Head(pipe_out))
    /\ pipe_out' = Tail(pipe_out)
    /\ UNCHANGED <<alive, stdin, pipe_err, inData, t_out, t_err, q_err>>
    /\ UNCHANGED callerVars

\* t_err: one iteration of `for line in iter(out.readline, '')`
EnqueueErr ==
    /\ t_err = "running"
    /\ pipe_err # <<>>
    /\ q_err' = Append(q_err, Head(pipe_err))
    /\ pipe_err' = Tail(pipe_err)
    /\ UNCHANGED <<alive, stdin, pipe_out, inData, t_out, t_err, q_out>>
    /\ UNCHANGED callerVars

\* t_out closes the stream as soon as the child is gone, whatever is left
\* in the pipe
CloseOutUnread ==
    /\ t_out = "running"
    /\ ~alive
    /\ t_out' = "closed"
    /\ UNCHANGED <<t_err, q_out, q_err>>
    /\ UNCHANGED engineVars
    /\ UNCHANGED callerVars

\* t_out: readline returns '' at end of stream, out.close()
CloseOut ==
    /\ t_out = "running"
    /\ ~alive
    /\ pipe_out = <<>>
    /\ t_out' = "closed"
    /\ UNCHANGED <<t_err, q_out, q_err>>
    /\ UNCHANGED engineVars
    /\ UNCHANGED callerVars

\* t_err: readline returns '' at end of stream, out.close()
CloseErr ==
    /\ t_err = "running"
    /\ ~alive
    /\ pipe_err = <<>>
    /\ t_err' = "closed"
    /\ UNCHANGED <<t_out, q_out, q_err>>
    /\ UNCHANGED engineVars
    /\ UNCHANGED callerVars

----------------------------------------------------------------------------
(* The caller: c, r, a, flush_all, quit *)

\* a public method and its arguments; id is the ordinal of its c() call, and
\* quiet tells whether flush_all() or a() was called with nothing in flight
NoCall == [op |-> "none", cmd |-> "", block |-> FALSE, stderr |-> FALSE,
           id |-> 0, quiet |-> FALSE]

\* the outcome of a public method: kind is "return" or the exception raised,
\* val the list returned or the lines of the exception's message
NoRet == [op |-> "none", cmd |-> "", block |-> FALSE, stderr |-> FALSE,
          id |-> 0, quiet |-> FALSE, kind |-> "none", val |-> <<>>,
          prev |-> "other"]

\* nothing is in flight: the engine has executed all it was sent and the
\* readers have enqueued all it wrote
Quiet == stdin = <<>> /\ pipe_out = <<>> /\ pipe_err = <<>>

\* q.queue[-1] == f"COMMAND_SEQUENCE_ENDED-{timestamp}\n"
IsSentinelOf(l, ts) == l.k = "sentinel" /\ l.tag = ts

\* re.match(r"[ \t]*\^[ \t]*\n", line)
IsCaret(l) == l.k = "caret"

\* re.match(r"^COMMAND_SEQUENCE_ENDED\-[0-9]+", line)
IsMarker(l) == l.k = "sentinel"

\* line != "" and line != "\n"
NotBlank(l) == l.k # "blank"

NotMarker(l) == ~IsMarker(l)

\* the Python slice s[k:], k a 0-based index that may be negative
PySliceFrom(s, k) ==
    LET n == Len(s)
        from == IF k < 0 THEN (IF n + k < 0 THEN 0 ELSE n + k)
                ELSE (IF k > n THEN n ELSE k)
    IN SubSeq(s, from + 1, n)

\* the wait loop compares with the marker text only, not with the timestamp
SentinelSeenAnyTag(q, ts) == Len(q) # 0 /\ IsMarker(Last(q))

\* the condition that ends the wait loop of c()
SentinelSeen(q, ts) == Len(q) # 0 /\ IsSentinelOf(Last(q), ts)

\* the smallest i in range(from, to) whose line of q matches the caret
\* pattern (0-based), or -1
FirstCaret(q, from, to) ==
    LET hits == {i \in from .. (to - 1) : IsCaret(q[i + 1])}
    IN IF hits = {} THEN -1
       ELSE CHOOSE i \in hits : \A j \in hits : i <= j

\* r() calls get(), which waits for a line and never raises Empty
RaisesEmptyBlockingGet(q) == FALSE

\* get_nowait() raises Empty
RaisesEmpty(q) == q = <<>>

\* the queue the running r() drains
SelectedQueue == IF rstderr THEN q_err ELSE q_out

\* the public method returns or raises: its locals are gone
Finish(kind, val, c, prevKind) ==
    /\ pc' = "idle"
    /\ ret' = [op |-> c.op, cmd |-> c.cmd, block |-> c.block,
               stderr |-> c.stderr, id |-> c.id, quiet |-> c.quiet,
               kind |-> kind, val |-> val, prev |-> prevKind]
    /\ call' = NoCall
    /\ stack' = <<>>
    /\ lines' = <<>>
    /\ rstderr' = FALSE
    /\ timestamp' = 0
    /\ startIndex' = 0
    /\ errIdx' = 0
    /\ errMsg' = <<>>

\* what is remembered of the outcome before the last: whether it was the
\* GnuplotException of the caret scan, or a flush_all() called with nothing
\* in flight
Prev(r) ==
    IF r.kind = "EngineError" THEN "EngineError"
    ELSE IF r.op = "flush" /\ r.quiet THEN "quietflush"
    ELSE "other"

\* a public method starts: the outcome of the one before is dropped, but for
\* how it ended
Pending == [NoRet EXCEPT !.prev = Prev(ret)]

\* flush_all() without its second call, flush_queue(stderr=False)
FlushAllThenErrOnly(then) == <<then>>

\* flush_all(): after the flush_queue() that drains stderr comes
\* flush_queue(stderr=False), and then what follows the call of flush_all()
FlushAllThen(then) == <<"flush2", then>>

\* r() starts: lines = []
StartRead(isErr, then) ==
    /\ pc' = "r_loop"
    /\ rstderr' = isErr
    /\ lines' = <<>>
    /\ stack' = then

\* time_ns(): the wall clock, which need not have advanced since it was
\* read last
TimeNs(ts) == ts \in {clock, clock + 1} /\ ts >= 1 /\ ts <= MaxClock

\* c(commands, block) called by the user: timestamp = time_ns(), write and
\* flush (BrokenPipeError when the child is gone), then wait or return
Send(cmd, block, ts) ==
    /\ pc = "idle"
    /\ nsent < MaxSends
    /\ nsent' = nsent + 1
    /\ TimeNs(ts)
    /\ clock' = ts
    /\ LET c == [op |-> "send", cmd |-> cmd, block |-> block,
                 stderr |-> FALSE, id |-> nsent + 1, quiet |-> FALSE] IN
       IF ~alive
       THEN /\ Finish("BrokenPipe", <<>>, c, Prev(ret))
            /\ UNCHANGED stdin
       ELSE /\ stdin' = stdin \o <<Framed(cmd, ts, nsent + 1)>>
            /\ IF block
               THEN /\ pc' = "c_wait"
                    /\ call' = c
                    /\ timestamp' = ts
                    /\ stack' = <<"c_ret">>
                    /\ ret' = Pending
                    /\ UNCHANGED <<lines, rstderr, startIndex, errIdx, errMsg>>
               ELSE Finish("return", <<>>, c, Prev(ret))
    /\ UNCHANGED <<alive, pipe_out, pipe_err, inData, t_out, t_err, q_out,
                   q_err, outIndex, ncalls>>

\* a(command, stderr=isErr) called by the user: startIndex = self.outIndex,
\* then c(command) up to its wait loop
Ask(cmd, isErr, ts) ==
    /\ pc = "idle"
    /\ nsent < MaxSends
    /\ nsent' = nsent + 1
    /\ TimeNs(ts)
    /\ clock' = ts
    /\ LET c == [op |-> "ask", cmd |-> cmd, block |-> TRUE,
                 stderr |-> isErr, id |-> nsent + 1, quiet |-> Quiet] IN
       IF ~alive
       THEN /\ Finish("BrokenPipe", <<>>, c, Prev(ret))
            /\ UNCHANGED stdin
       ELSE /\ stdin' = stdin \o <<Framed(cmd, ts, nsent + 1)>>
            /\ pc' = "c_wait"
            /\ call' = c
            /\ timestamp' = ts
            /\ startIndex' = outIndex
            /\ stack' = <<"a_scan">>
            /\ ret' = Pending
            /\ UNCHANGED <<lines, rstderr, errIdx, errMsg>>
    /\ UNCHANGED <<alive, pipe_out, pipe_err, inData, t_out, t_err, q_out,
                   q_err, outIndex, ncalls>>

\* c() returns to the method that called it, which runs up to its next call
\* of c() or r(): c() called by the user returns, a() goes on to its scan,
\* plot() to its second c() and then to its r()
CReturns ==
    CASE Head(stack) = "c_ret" ->
           Finish("return", <<>>, call, ret.prev)
      [] Head(stack) = "a_scan" ->
           /\ pc' = "a_scan"
           /\ stack' = <<>>
           /\ UNCHANGED <<lines, rstderr, timestamp, startIndex, errIdx,
                          errMsg, call, ret>>
      [] Head(stack) = "plot_data" ->
           /\ pc' = "plot_c2"
           /\ stack' = <<>>
           /\ UNCHANGED <<lines, rstderr, timestamp, startIndex, errIdx,
                          errMsg, call, ret>>
      [] Head(stack) = "plot_read" ->
           /\ StartRead(TRUE, <<"r_ret">>)
           /\ UNCHANGED <<timestamp, startIndex, errIdx, errMsg, call, ret>>

\* the wait loop of c() ends and takes the sentinel it waited for out of
\* q_out
CWaitTakesSentinel ==
    /\ pc = "c_wait"
    /\ SentinelSeen(q_out, timestamp)
    /\ q_out' = SubSeq(q_out, 1, Len(q_out) - 1)
    /\ CReturns
    /\ UNCHANGED <<t_out, t_err, q_err, clock, outIndex, nsent, ncalls>>
    /\ UNCHANGED engineVars

\* the wait loop of c() ends
CWait ==
    /\ pc = "c_wait"
    /\ SentinelSeen(q_out, timestamp)
    /\ CReturns
    /\ UNCHANGED <<t_out, t_err, q_out, q_err, clock, outIndex, nsent, ncalls>>
    /\ UNCHANGED engineVars

\* plot(data) called by the user with its default com: self.c(com) up to
\* its wait loop
Plot(ts) ==
    /\ pc = "idle"
    /\ nsent < MaxSends
    /\ nsent' = nsent + 1
    /\ TimeNs(ts)
    /\ clock' = ts
    /\ LET c == [op |-> "plot", cmd |-> "plot", block |-> TRUE,
                 stderr |-> TRUE, id |-> nsent + 1, quiet |-> FALSE] IN
       IF ~alive
       THEN /\ Finish("BrokenPipe", <<>>, c, Prev(ret))
            /\ UNCHANGED stdin
       ELSE /\ stdin' = stdin \o <<Framed("plot", ts, nsent + 1)>>
            /\ pc' = "c_wait"
            /\ call' = c
            /\ timestamp' = ts
            /\ stack' = <<"plot_data">>
            /\ ret' = Pending
            /\ UNCHANGED <<lines, rstderr, startIndex, errIdx, errMsg>>
    /\ UNCHANGED <<alive, pipe_out, pipe_err, inData, t_out, t_err, q_out,
                   q_err, outIndex, ncalls>>

\* plot(): self.c(str_data + 'e') up to its wait loop
PlotData(ts) ==
    /\ pc = "plot_c2"
    /\ nsent' = nsent + 1
    /\ TimeNs(ts)
    /\ clock' = ts
    /\ IF ~alive
       THEN /\ Finish("BrokenPipe", <<>>, call, ret.prev)
            /\ UNCHANGED stdin
       ELSE /\ stdin' = stdin \o <<Framed("data", ts, nsent + 1)>>
            /\ pc' = "c_wait"
            /\ timestamp' = ts
            /\ stack' = <<"plot_read">>
            /\ UNCHANGED <<lines, rstderr, startIndex, errIdx, errMsg, call,
                           ret>>
    /\ UNCHANGED <<alive, pipe_out, pipe_err, inData, t_out, t_err, q_out,
                   q_err, outIndex, ncalls>>

\* a() after c() returned: self.outIndex = len(q_err.queue), the scan of
\* q_err.queue[startIndex:outIndex], and the call of r() that follows
AScan ==
    /\ pc = "a_scan"
    /\ outIndex' = Len(q_err)
    /\ LET i == FirstCaret(q_err, startIndex, Len(q_err)) IN
       IF i >= 0
       THEN /\ errIdx' = i
            /\ StartRead(TRUE, <<"a_err">>)
       ELSE /\ errIdx' = 0
            /\ StartRead(call.stderr, <<"a_resp">>)
    /\ UNCHANGED <<t_out, t_err, q_out, q_err, clock, nsent, ncalls, timestamp,
                   startIndex, errMsg, call, ret>>
    /\ UNCHANGED engineVars

\* r(stderr=isErr) called by the user
Read(isErr) ==
    /\ pc = "idle"
    /\ ncalls < MaxCalls
    /\ ncalls' = ncalls + 1
    /\ call' = [op |-> "read", cmd |-> "", block |-> FALSE, stderr |-> isErr,
                id |-> 0, quiet |-> FALSE]
    /\ StartRead(isErr, <<"r_ret">>)
    /\ ret' = Pending
    /\ UNCHANGED <<t_out, t_err, q_out, q_err, clock, outIndex, nsent,
                   timestamp, startIndex, errIdx, errMsg>>
    /\ UNCHANGED engineVars

\* flush_all() called by the user: flush_queue(), then flush_queue(stderr=False)
FlushAll ==
    /\ pc = "idle"
    /\ ncalls < MaxCalls
    /\ ncalls' = ncalls + 1
    /\ call' = [op |-> "flush", cmd |-> "", block |-> FALSE, stderr |-> FALSE,
                id |-> 0, quiet |-> Quiet]
    /\ StartRead(TRUE, FlushAllThen("flush_ret"))
    /\ ret' = Pending
    /\ UNCHANGED <<t_out, t_err, q_out, q_err, clock, outIndex, nsent,
                   timestamp, startIndex, errIdx, errMsg>>
    /\ UNCHANGED engineVars

\* r(): get_nowait() returns a line, lines.append(line)
RGet ==
    /\ pc = "r_loop"
    /\ SelectedQueue # <<>>
    /\ lines' = Append(lines, Head(SelectedQueue))
    /\ IF rstderr
       THEN q_err' = Tail(q_err) /\ q_out' = q_out
       ELSE q_out' = Tail(q_out) /\ q_err' = q_err
    /\ UNCHANGED <<t_out, t_err, clock, outIndex, nsent, ncalls, pc, stack,
                   rstderr, timestamp, startIndex, errIdx, errMsg, call, ret>>
    /\ UNCHANGED engineVars

\* r() hands back its list without the line it took first
ReadResultWithoutFirst(ls) == IF ls = <<>> THEN <<>> ELSE Tail(ls)

\* what r() hands back to its caller when its loop ends
ReadResult(ls) == ls

\* r(): get_nowait() raises Empty, self.outIndex = 0, return lines; then the
\* caller of r() runs up to its next queue access
REmpty ==
    /\ pc = "r_loop"
    /\ RaisesEmpty(SelectedQueue)
    /\ outIndex' = 0
    /\ LET got  == ReadResult(lines)
           then == Head(stack) IN
       CASE then = "r_ret" ->
              Finish("return", got, call, ret.prev)
         [] then = "flush2" ->
              /\ StartRead(FALSE, Tail(stack))
              /\ UNCHANGED <<timestamp, startIndex, errIdx, errMsg, call, ret>>
         [] then = "flush_ret" ->
              Finish("return", <<>>, call, ret.prev)
         [] then = "a_err" ->
              \* cleanErrorLines, then flush_all()
              /\ errMsg' = SelectSeq(PySliceFrom(got, errIdx - 1), NotBlank)
              /\ StartRead(TRUE, FlushAllThen("a_raise"))
              /\ UNCHANGED <<timestamp, startIndex, errIdx, call, ret>>
         [] then = "a_raise" ->
              Finish("EngineError", errMsg, call, ret.prev)
         [] then = "a_resp" ->
              IF Len(got) = 0
              THEN Finish("EmptyResponse", <<>>, call, ret.prev)
              ELSE Finish("return", SelectSeq(got, NotMarker), call, ret.prev)
    /\ UNCHANGED <<t_out, t_err, q_out, q_err, clock, nsent, ncalls>>
    /\ UNCHANGED engineVars

\* quit(): self.a('exit', block=False) raises TypeError, a() has no
\* parameter `block`; the exit instruction is not written, p.kill() not reached
Quit ==
    /\ pc = "idle"
    /\ ncalls < MaxCalls
    /\ ncalls' = ncalls + 1
    /\ Finish("TypeError", <<>>,
              [op |-> "quit", cmd |-> "", block |-> FALSE, stderr |-> FALSE,
               id |-> 0, quiet |-> FALSE], Prev(ret))
    /\ UNCHANGED <<t_out, t_err, q_out, q_err, clock, outIndex, nsent>>
    /\ UNCHANGED engineVars

----------------------------------------------------------------------------

\* the state __init__ leaves: the engine has executed 'unset print',
\* 'set print "-"' and the sentinel print, flush_all() has emptied both queues
Init ==
    /\ alive = TRUE
    /\ stdin = <<>>
    /\ pipe_out = <<>>
    /\ pipe_err = <<>>
    /\ inData = FALSE
    /\ t_out = "running"
    /\ t_err = "running"
    /\ q_out = <<>>
    /\ q_err = <<>>
    /\ outIndex = 0
    /\ clock = 0
    /\ nsent = 0
    /\ ncalls = 0
    /\ pc = "idle"
    /\ stack = <<>>
    /\ lines = <<>>
    /\ rstderr = FALSE
    /\ timestamp = 0
    /\ startIndex = 0
    /\ errIdx = 0
    /\ errMsg = <<>>
    /\ call = NoCall
    /\ ret = NoRet

Next ==
    \/ \E cmd \in Cmds, block \in BOOLEAN, ts \in 1 .. MaxClock : Send(cmd, block, ts)
    \/ \E cmd \in Cmds, isErr \in BOOLEAN, ts \in 1 .. MaxClock : Ask(cmd, isErr, ts)
    \/ \E isErr \in BOOLEAN : Read(isErr)
    \/ FlushAll
    \/ Quit
    \/ CWait
    \/ AScan
    \/ RGet
    \/ REmpty
    \/ EngineStep
    \/ EnqueueOut
    \/ EnqueueErr
    \/ CloseOut
    \/ CloseErr

Spec == Init /\ [][Next]_vars

\* a session on which the user calls plot(), c() and r()
PlotNext ==
    \/ \E ts \in 1 .. MaxClock : Plot(ts)
    \/ \E ts \in 1 .. MaxClock : PlotData(ts)
    \/ \E cmd \in Cmds, block \in BOOLEAN, ts \in 1 .. MaxClock : Send(cmd, block, ts)
    \/ \E isErr \in BOOLEAN : Read(isErr)
    \/ CWait
    \/ RGet
    \/ REmpty
    \/ EngineStep
    \/ EnqueueOut
    \/ EnqueueErr
    \/ CloseOut
    \/ CloseErr

PlotSpec == Init /\ [][PlotNext]_vars

\* the interpreter runs every thread that can run, and the engine runs
FairPlotSpec ==
    /\ PlotSpec
    /\ WF_vars(CWait)
    /\ WF_vars(RGet)
    /\ WF_vars(REmpty)
    /\ WF_vars(EngineStep)
    /\ WF_vars(EnqueueOut)
    /\ WF_vars(EnqueueErr)
    /\ WF_vars(CloseOut)
    /\ WF_vars(CloseErr)

\* the interpreter runs every thread that can run, and the engine runs
FairSpec ==
    /\ Spec
    /\ WF_vars(CWait)
    /\ WF_vars(AScan)
    /\ WF_vars(RGet)
    /\ WF_vars(REmpty)
    /\ WF_vars(EngineStep)
    /\ WF_vars(EnqueueOut)
    /\ WF_vars(EnqueueErr)
    /\ WF_vars(CloseOut)
    /\ WF_vars(CloseErr)

----------------------------------------------------------------------------
(* Properties *)

\* s is an initial part of t
IsPrefix(s, t) == Len(s) <= Len(t) /\ SubSeq(t, 1, Len(s)) = s

\* the answer line the engine prints for the 'print 1+1' of c() call number id
AnswerOf(id) == Line("ans", 0, id)

\* C1: a c() call with block=True does not return before a line
\* COMMAND_SEQUENCE_ENDED-<its own timestamp> has been enqueued by t_out and
\* is the last line of q_out, in every interleaving with the reader threads
\* and after any earlier calls: in the state the wait loop is left in, q_out
\* is not empty and its last line is the sentinel carrying the timestamp the
\* call drew.
C1_BlockingSendWaitsForItsSentinel ==
    [][ (pc = "c_wait" /\ pc' # "c_wait")
          => /\ q_out' # <<>>
             /\ Last(q_out').k = "sentinel"
             /\ Last(q_out').tag = timestamp ]_vars

\* a blocking c() has returned although an earlier call's sentinel, carrying
\* another timestamp, came first
C1_Witness ==
    /\ pc = "idle"
    /\ ret.op = "send" /\ ret.block /\ ret.kind = "return" /\ ret.id = 2
    /\ Len(q_out) >= 2
    /\ q_out[1].k = "sentinel" /\ q_out[1].id = 1
    /\ Last(q_out).k = "sentinel" /\ Last(q_out).id = 2
    /\ q_out[1].tag # Last(q_out).tag

\* C2: a('print 1+1') with its default arguments, the first call on a fresh
\* session, when no caret is detected, drains q_out and returns the stdout
\* lines without the sentinel: the one line the engine printed.
C2_AskReturnsStdoutAnswer ==
    (/\ pc = "idle"
     /\ ret.op = "ask" /\ ret.stderr /\ ret.cmd = "print"
     /\ ret.id = 1 /\ ncalls = 0
     /\ ret.kind # "EngineError")
        => /\ ret.kind = "return"
           /\ ret.val = <<AnswerOf(ret.id)>>
           /\ q_out = <<>>

\* C3: an a() whose command makes the engine write a caret line on stderr
\* raises the GnuplotException of the caret scan instead of returning
\* normally, in every interleaving of the two readers; stated for
\* a('print undefined_name') as the first call on a fresh session.
C3_CaretAlwaysRaises ==
    (/\ pc = "idle"
     /\ ret.op = "ask" /\ ret.stderr /\ ret.cmd = "undef"
     /\ ret.id = 1 /\ ncalls = 0)
        => ret.kind # "return"

\* C4: an a() that ends without a detected caret never returns an empty
\* list (it raises "Empty Response" instead), and it never raises "Empty
\* Response" when its command printed a line on stdout.
C4_EmptyResponseIffNoOutput ==
    (pc = "idle" /\ ret.op = "ask")
        => /\ (ret.kind = "return" => ret.val # <<>>)
           /\ (ret.kind = "EmptyResponse" => ret.cmd # "print")

\* C5: the a('print 1+1') that follows an a() that raised the
\* GnuplotException of the caret scan returns its own answer.
C5_UsableAfterEngineError ==
    (/\ pc = "idle"
     /\ ret.op = "ask" /\ ret.cmd = "print"
     /\ ret.prev = "EngineError")
        => /\ ret.kind = "return"
           /\ ret.val = <<AnswerOf(ret.id)>>

\* C6: once quit() has been called on a live session, the child process is
\* dead.
C6_QuitKillsChild ==
    (pc = "idle" /\ ret.op = "quit") => ~alive

\* C7: a c() call made after quit() raises the broken-pipe error: it does
\* not succeed and does not enter the wait loop.
C7_SendAfterQuitFails ==
    [][ (pc = "idle" /\ ret.op = "quit" /\ nsent' = nsent + 1)
          => (pc' = "idle" /\ ret'.kind = "BrokenPipe") ]_vars

\* C8: a c() call with block=True that is in its wait loop when the child
\* process is dead eventually leaves the loop (by raising a communication
\* error).
C8_WaitEndsWhenChildDies ==
    (pc = "c_wait" /\ call.op = "send" /\ ~alive) ~> (pc # "c_wait")

\* C9: r() never waits for output: whenever its loop finds the selected
\* queue empty it can return at once, and an r() called by the user that
\* finds the queue empty at its first get_nowait() returns the empty list,
\* as a normal return value.
C9_ReadNeverBlocks ==
    /\ [](pc = "r_loop" /\ SelectedQueue = <<>> => ENABLED REmpty)
    /\ [][ (/\ pc = "r_loop" /\ call.op = "read"
            /\ lines = <<>> /\ SelectedQueue = <<>>
            /\ pc' # "r_loop")
             => (pc' = "idle" /\ ret'.kind = "return" /\ ret'.val = <<>>) ]_vars

\* r() called on an empty queue with nothing in flight has returned []
C9_Witness ==
    /\ pc = "idle" /\ Quiet
    /\ ret.op = "read" /\ ret.kind = "return" /\ ret.val = <<>>
    /\ nsent >= 1

\* C10, as claimed: once flush_all() has returned, both queues are empty,
\* so that a second flush_all() would remove no line, in every reachable
\* state.
C10_FlushLeavesQueuesEmpty ==
    (pc = "idle" /\ ret.op = "flush") => (q_out = <<>> /\ q_err = <<>>)

\* C10, amended: once a flush_all() that was called with nothing in flight
\* has returned, both queues are empty and nothing is in flight, and a
\* flush_all() called next removes no line from either queue.
C10_QuietFlushIsIdempotent ==
    /\ []((pc = "idle" /\ ret.op = "flush" /\ ret.quiet)
            => (q_out = <<>> /\ q_err = <<>> /\ Quiet))
    /\ [][ (call.op = "flush" /\ ret.prev = "quietflush")
             => (q_out' = q_out /\ q_err' = q_err) ]_vars

\* a second flush_all() has returned after a flush_all() that was called
\* with nothing in flight and lines to drain
C10_Witness ==
    /\ pc = "idle"
    /\ ret.op = "flush" /\ ret.quiet /\ ret.prev = "quietflush"
    /\ nsent >= 1
    /\ q_out = <<>> /\ q_err = <<>>

\* C11: the lines of q_out stand in the order the c() calls were made, and
\* the sentinel of a call is the last of that call's lines: of two lines of
\* q_out the earlier one is of the same or an earlier call, and when both are
\* of the same call the earlier one is not the sentinel.
C11_QueueKeepsCommandOrder ==
    \A i, j \in 1 .. Len(q_out) :
        i < j => /\ q_out[i].id <= q_out[j].id
                 /\ (q_out[i].id = q_out[j].id => q_out[i].k # "sentinel")

\* two c() calls were made and nothing was read: q_out holds the answer and
\* the sentinel of the first, then the answer and the sentinel of the second
C11_Witness ==
    /\ ncalls = 0 /\ nsent = 2
    /\ Len(q_out) = 4
    /\ q_out[1] = AnswerOf(1) /\ q_out[2].k = "sentinel" /\ q_out[2].id = 1
    /\ q_out[3] = AnswerOf(2) /\ q_out[4].k = "sentinel" /\ q_out[4].id = 2
    /\ ret.op = "send"

\* C12: no two c() calls carry the same tag, so that q_out never holds two
\* sentinel lines with one tag: of two sentinel lines of q_out, each is of
\* its own call and the tags differ.
C12_OneSentinelPerTag ==
    \A i, j \in 1 .. Len(q_out) :
        (i < j /\ q_out[i].k = "sentinel" /\ q_out[j].k = "sentinel")
            => /\ q_out[i].id # q_out[j].id
               /\ q_out[i].tag # q_out[j].tag

\* C13: r() called by the user returns, in queue order, every line the
\* selected queue held when it was called, with the lines a reader added
\* while it was draining after them, and when it returns the selected queue
\* is empty and outIndex is 0.  Step by step: at the call `lines` is empty
\* and the queues are as they were; while r() runs, `lines` followed by the
\* selected queue only grows at its end, and the other queue loses nothing;
\* r() returns `lines` as it is, in a state where the selected queue is
\* empty, and leaves outIndex = 0.
C13_ReadDrainsInOrder ==
    [][ /\ (pc = "idle" /\ call'.op = "read")
            => (lines' = <<>> /\ q_out' = q_out /\ q_err' = q_err)
        /\ (pc = "r_loop" /\ call.op = "read" /\ pc' = "r_loop")
            => /\ IsPrefix(lines \o SelectedQueue, lines' \o SelectedQueue')
               /\ IsPrefix(IF rstderr THEN q_out ELSE q_err,
                           IF rstderr THEN q_out' ELSE q_err')
        /\ (pc = "r_loop" /\ call.op = "read" /\ pc' = "idle")
            => /\ ret'.kind = "return"
               /\ ret'.val = lines
               /\ SelectedQueue = <<>>
               /\ (IF rstderr THEN q_err' ELSE q_out') = <<>>
               /\ outIndex' = 0 ]_vars

\* r(stderr=False) has returned the answer and the sentinel of the first
\* c() call and the sentinel of the second, and q_out is empty
C13_Witness ==
    /\ pc = "idle"
    /\ ret.op = "read" /\ ~ret.stderr /\ ret.kind = "return"
    /\ Len(ret.val) = 3
    /\ ret.val[1] = AnswerOf(1)
    /\ ret.val[2].k = "sentinel" /\ ret.val[2].id = 1
    /\ ret.val[3].k = "sentinel" /\ ret.val[3].id = 2
    /\ q_out = <<>> /\ outIndex = 0

\* C14: quit() does not raise: a quit() that has ended has returned.
C14_QuitNeverRaises ==
    (pc = "idle" /\ ret.op = "quit") => ret.kind = "return"

\* C15: a caret line that was in q_err before a() was called does not make
\* that a() raise the GnuplotException of the caret scan: an a('print 1+1')
\* called with nothing in flight, whose command writes nothing on stderr,
\* does not raise it; stated for calls that each drew a timestamp of their
\* own (the clock advanced at every call).
C15_StaleCaretIsOutsideWindow ==
    (/\ pc = "idle"
     /\ ret.op = "ask" /\ ret.cmd = "print" /\ ret.quiet
     /\ clock = nsent)
        => ret.kind # "EngineError"

\* C16: the message of the GnuplotException of the caret scan contains the
\* caret line, also when the caret line was the first line of q_err (i = 0).
C16_MessageHoldsCaretLine ==
    (pc = "idle" /\ ret.kind = "EngineError")
        => \E n \in 1 .. Len(ret.val) : IsCaret(ret.val[n])

\* C17: the lines a(command, stderr=False) returns are lines the engine
\* wrote for that command, none for an earlier c() call; stated for calls
\* that each drew a timestamp of their own (the clock advanced at every
\* call).
C17_AskReturnsOwnLinesOnly ==
    (/\ pc = "idle"
     /\ ret.op = "ask" /\ ~ret.stderr /\ ret.kind = "return"
     /\ clock = nsent)
        => \A n \in 1 .. Len(ret.val) : ret.val[n].id = ret.id

\* C18: a reader thread moves each line of its stream to the tail of its own
\* queue, in the order the lines were written, and leaves the other queue
\* alone; after the child is gone each reader ends, and a reader that has
\* ended has left no line of its stream behind.
C18_ReaderEnqueuesAllThenEnds ==
    /\ [][ (~IsPrefix(pipe_out, pipe_out'))
              => /\ pipe_out # <<>> /\ pipe_out' = Tail(pipe_out)
                 /\ q_out' = Append(q_out, Head(pipe_out))
                 /\ q_err' = q_err ]_vars
    /\ [][ (~IsPrefix(pipe_err, pipe_err'))
              => /\ pipe_err # <<>> /\ pipe_err' = Tail(pipe_err)
                 /\ q_err' = Append(q_err, Head(pipe_err))
                 /\ q_out' = q_out ]_vars
    /\ [](t_out = "closed" => (~alive /\ pipe_out = <<>>))
    /\ [](t_err = "closed" => (~alive /\ pipe_err = <<>>))
    /\ (~alive) ~> (t_out = "closed" /\ t_err = "closed")

\* both readers have ended after the child exited, and the lines the engine
\* wrote before it exited are in the queues
C18_Witness ==
    /\ ~alive
    /\ t_out = "closed" /\ t_err = "closed"
    /\ Len(q_out) = 1 /\ q_out[1].id = 1
    /\ Len(q_err) = 3 /\ q_err[3].k = "msg"

C19_PlotIsNeverStuck ==
    (call.op = "plot") => ENABLED PlotNext

====
